---------------------------- MODULE Spec2Model ----------------------------
(***************************************************************************)
(* A model of the experiment orchestration framework:                      *)
(*   experiment_exceptions.py  the control outcomes and handle_exceptions  *)
(*   experiment.py             escalation policies, Stage, Trial,          *)
(*                             Experiment                                  *)
(*   resource_control.py       ResourceWarden, ResourceContainer           *)
(*                                                                         *)
(* Specifications:                                                         *)
(*   SpecPolicy  one entity's escalation policy under handle_exceptions    *)
(*   SpecTrial   one Trial and its stages, driven through its methods      *)
(*   SpecExperiment  one Experiment and one call of Experiment.run         *)
(*   SpecDrain   the same, its loops running on and its stages completing  *)
(*   SpecWarden  one ResourceWarden over its pool of primitives            *)
(*   SpecContainer  one ResourceContainer on a ResourceWarden              *)
(***************************************************************************)
EXTENDS Integers, Sequences, FiniteSets, TLC

VARIABLES
    \* ---- SpecPolicy: one wrapped entity (a Stage, a Trial or an Experiment)
    error_sequence,            \* self.error_sequence, the working policy
    original_error_sequence,   \* self.original_error_sequence
    intercepted,               \* history: the last call through the wrapper, or of reset_error_sequence
    supplied,                  \* history: the policy the entity was constructed with
    nfail,                     \* history: policy consultations since the last reset
    \* ---- SpecTrial: one Trial and its stages, driven through its methods
    trial,                     \* the Trial object (with the stages it owns)
    called,                    \* history: the last method call and what it did (spent: new_trial or reset was called with a policy partly consumed)
    emitted,                   \* history: trial_results values the stages returned in this life
    completions,               \* history: completion signals in this life
    clean,                     \* history: begun by new_trial, and no stage raised since
    snapshot,                  \* history: the state just before the latest start call
    ended,                     \* history: stages ended by completion or StageAbort in this life
    \* ---- SpecExperiment: one Experiment, its trial slots, and one call of run
    experiment,                \* the Experiment object (with the trials it owns)
    frame,                     \* the activation of Experiment.run: its locals and where it is
    escalated,                 \* history: the policies the last step consulted
    assigned,                  \* history: the queue as constructed, and the argument sets new_trial received, in call order
    passed,                    \* history: the last pass of a loop of run (what trial.run() did, and what the loop did with it)
    \* ---- SpecWarden: one ResourceWarden and the primitives it arbitrates
    resource_dict,             \* self.resource_dict: name -> counting primitive
    warden,                    \* history: the last call of acquire or release
    \* ---- SpecContainer: one ResourceContainer, on the warden of resource_dict
    container,                 \* the ResourceContainer object: its ledger and chunk_marker
    contained,                 \* history: the last method call of the container
    normal,                    \* history: every call of the container so far returned normally
    boundary                   \* history: how many leading ledger entries were there at the last reset_chunk_marker

policyVars == <<error_sequence, original_error_sequence, intercepted, supplied, nfail>>
trialVars == <<trial, called, emitted, completions, clean, snapshot, ended>>
experimentVars == <<experiment, frame, escalated, assigned, passed>>

wardenVars == <<resource_dict, warden>>

containerVars == <<container, contained, normal, boundary>>

vars == <<policyVars, trialVars, experimentVars, wardenVars, containerVars>>

---------------------------------------------------------------------------
(* Bounds *)

\* longest compact policy (entries as written by the user)
MaxPolicyLen == 2
\* largest repeat count of a compact (kind, count) entry
MaxRepeat == 2
\* wrapped calls that fail, per policy life (between two resets)
MaxFailures == 6
\* most stages of a trial
MaxStages == 2
\* most trial_results values returned by the stages in one trial life
MaxResults == 2
\* most trial slots of an experiment
MaxSlots == 2
\* most pending argument sets
MaxQueue == 2
\* largest initial value of a counting primitive
MaxUnits == 2
\* most specs given to one acquire call, most names to one release call
MaxSpecs == 2

---------------------------------------------------------------------------
(* experiment_exceptions.py: the exception classes *)

\* the classes the wrapper re-raises untouched (line 88)
Bypass == {"TrialAbort", "TrialReset", "StageAbort", "StageReset"}

\* every ExperimentException subclass (lines 32-76)
ControlOutcomes ==
    Bypass \cup {"ExperimentAbort", "ExperimentReset", "Ignore"}

\* any other Exception: "Error" stands for a failure of the user's code
\* (ValueError, ...), "IndexError" is the one Trial.run itself can produce
Unexpected == {"Error", "IndexError"}

Exceptions == ControlOutcomes \cup Unexpected

\* the function returned normally
NoException == "None"

\* the 0 that follows a class in a flat sequence: repeat forever (line 24)
Forever == "0"

---------------------------------------------------------------------------
(* experiment.py: _create_error_sequence *)

\* A compact policy entry is an exception class (tuple = FALSE) or a pair
\* (class, count) (tuple = TRUE).
PolicyKinds == {"StageReset", "TrialAbort", "Ignore", "ExperimentAbort"}

PolicyEntries ==
    [tuple : {FALSE}, cls : PolicyKinds, count : {1}]
        \cup [tuple : {TRUE}, cls : PolicyKinds, count : 0..MaxRepeat]

RECURSIVE SeqsUpTo(_, _)
SeqsUpTo(S, n) ==
    IF n = 0 THEN {<<>>}
    ELSE LET shorter == SeqsUpTo(S, n - 1)
         IN shorter \cup {Append(s, x) : s \in {t \in shorter : Len(t) = n - 1}, x \in S}

CompactPolicies == SeqsUpTo(PolicyEntries, MaxPolicyLen)

RECURSIVE Repeat(_, _)
Repeat(x, n) == IF n <= 0 THEN <<>> ELSE <<x>> \o Repeat(x, n - 1)

RECURSIVE _create_error_sequence(_)
_create_error_sequence(compact) ==
    IF compact = <<>> THEN <<>>
    ELSE LET e == Head(compact)
             flat == IF e.tuple
                     THEN IF e.count = 0
                          THEN <<e.cls, Forever>>
                          ELSE Repeat(e.cls, e.count)
                     ELSE <<e.cls>>
         IN flat \o _create_error_sequence(Tail(compact))

---------------------------------------------------------------------------
(* experiment_exceptions.py: handle_exceptions *)

\* handle_exceptions as it would be with pop() for pop(0): the last entry is
\* taken, not the first
handle_exceptions_pop_last(seq, exc) ==
    IF exc = NoException THEN [raised |-> NoException, seq |-> seq]
    ELSE IF exc \in Bypass THEN [raised |-> exc, seq |-> seq]
    ELSE IF seq = <<>> THEN [raised |-> exc, seq |-> seq]
    ELSE IF Len(seq) > 1 /\ seq[2] = Forever THEN [raised |-> seq[1], seq |-> seq]
    ELSE [raised |-> seq[Len(seq)], seq |-> SubSeq(seq, 1, Len(seq) - 1)]

\* handle_exceptions as it would be without the test for a following 0
handle_exceptions_always_pop(seq, exc) ==
    IF exc = NoException THEN [raised |-> NoException, seq |-> seq]
    ELSE IF exc \in Bypass THEN [raised |-> exc, seq |-> seq]
    ELSE IF seq = <<>> THEN [raised |-> exc, seq |-> seq]
    ELSE [raised |-> Head(seq), seq |-> Tail(seq)]

\* handle_exceptions as it would be without its first except clause
handle_exceptions_no_bypass(seq, exc) ==
    IF exc = NoException THEN [raised |-> NoException, seq |-> seq]
    ELSE IF seq = <<>> THEN [raised |-> exc, seq |-> seq]
    ELSE IF Len(seq) > 1 /\ seq[2] = Forever THEN [raised |-> seq[1], seq |-> seq]
    ELSE [raised |-> Head(seq), seq |-> Tail(seq)]

\* What the wrapper does when the wrapped function ends with exc (or returns:
\* exc = NoException), for an owner whose working policy is seq: the
\* exception that leaves the wrapper and the owner's policy afterwards.
handle_exceptions(seq, exc) ==
    IF exc = NoException THEN [raised |-> NoException, seq |-> seq]
    ELSE IF exc \in Bypass THEN [raised |-> exc, seq |-> seq]
    ELSE IF seq = <<>> THEN [raised |-> exc, seq |-> seq]
    ELSE IF Len(seq) > 1 /\ seq[2] = Forever THEN [raised |-> seq[1], seq |-> seq]
    ELSE [raised |-> Head(seq), seq |-> Tail(seq)]

---------------------------------------------------------------------------
(* experiment.py: Trial *)

\* The trial state is a dict. Keys are the keys the modelled stages and
\* configurations use, Absent marks a key the dict does not hold; an update
\* (a stage's next_state, a stage_args entry, keyword arguments) is a dict
\* too, merged by dict.update.
Keys == {"x", "trial_results"}
Absent == "absent"

Dict(x, r) == [k \in Keys |-> IF k = "x" THEN x ELSE r]
EmptyDict == Dict(Absent, Absent)

\* dict.update
Update(state, d) == [k \in Keys |-> IF d[k] # Absent THEN d[k] ELSE state[k]]

\* Trial.__init__ (results is the default, an empty TrialResults; of a
\* TrialResults only the data list is modelled, Trial never touches metadata)
\* stages: the stage objects; a stage is [blocking, error_sequence,
\* original_error_sequence].
Trial(stages, initial_state, compact) ==
    [ error_sequence          |-> _create_error_sequence(compact),
      original_error_sequence |-> _create_error_sequence(compact),
      state                   |-> initial_state,
      initial_state           |-> initial_state,
      state_checkpoint        |-> initial_state,
      stage_index             |-> 0,
      stages                  |-> stages,
      running                 |-> FALSE,
      initial_results         |-> <<>>,
      results                 |-> <<>>,
      done                    |-> TRUE,
      has_stage_args          |-> FALSE,   \* the attribute stage_args exists
      stage_args              |-> <<>> ]

\* Stage.__init__ / BlockingStage.__init__
Stage(blocking, compact) ==
    [ blocking                |-> blocking,
      error_sequence          |-> _create_error_sequence(compact),
      original_error_sequence |-> _create_error_sequence(compact) ]

\* Trial.reset_stage as it would be without the rollback
reset_stage_keep_state(t) == [t EXCEPT !.running = FALSE]

\* Trial.reset_stage
reset_stage(t) ==
    [t EXCEPT !.running = FALSE, !.state = t.state_checkpoint]

\* Trial.reset
\* Trial.reset as it would be if it left the stage index alone
reset_keep_index(t) ==
    [t EXCEPT !.state = Update(t.initial_state, t.stage_args[1]),
              !.state_checkpoint = t.initial_state,
              !.done = FALSE,
              !.running = FALSE,
              !.results = t.initial_results]

\* Trial.reset
reset(t) ==
    [t EXCEPT !.state = Update(t.initial_state, t.stage_args[1]),
              !.state_checkpoint = t.initial_state,
              !.done = FALSE,
              !.stage_index = 0,
              !.running = FALSE,
              !.results = t.initial_results]

\* Trial.new_trial as it would be if it left the policies of the stages alone
new_trial_keep_policies(t, given, stage_args, kwargs) ==
    LET args == IF given THEN stage_args
                ELSE [i \in 1..Len(t.stages) |-> EmptyDict]
        init == Update(t.initial_state, kwargs)
    IN [t EXCEPT !.error_sequence = t.original_error_sequence,
                 !.initial_state = init,
                 !.state = Update(init, args[1]),
                 !.state_checkpoint = init,
                 !.has_stage_args = TRUE,
                 !.stage_args = args,
                 !.done = FALSE,
                 !.stage_index = 0,
                 !.results = t.initial_results,
                 !.running = FALSE]

\* Trial.new_trial; given = FALSE is stage_args = None
new_trial(t, given, stage_args, kwargs) ==
    LET args == IF given THEN stage_args
                ELSE [i \in 1..Len(t.stages) |-> EmptyDict]
        init == Update(t.initial_state, kwargs)
    IN [t EXCEPT !.error_sequence = t.original_error_sequence,
                 !.initial_state = init,
                 !.state = Update(init, args[1]),
                 !.state_checkpoint = init,
                 !.has_stage_args = TRUE,
                 !.stage_args = args,
                 !.done = FALSE,
                 !.stage_index = 0,
                 !.results = t.initial_results,
                 !.running = FALSE,
                 !.stages = [i \in 1..Len(t.stages) |->
                                [t.stages[i] EXCEPT !.error_sequence =
                                     t.stages[i].original_error_sequence]]]

\* Trial.set_done
set_done(t) == [t EXCEPT !.done = TRUE]

\* Trial.next_stage as it would be if it skipped a stage
next_stage_skip(t) ==
    LET i == t.stage_index + 2
    IN [t EXCEPT !.stage_index = i,
                 !.state = IF i < Len(t.stage_args)
                           THEN Update(t.state, t.stage_args[i + 1])
                           ELSE t.state,
                 !.running = FALSE]

\* Trial.next_stage (stage_index counts from 0, sequences from 1)
next_stage(t) ==
    LET i == t.stage_index + 1
    IN [t EXCEPT !.stage_index = i,
                 !.state = IF i < Len(t.stage_args)
                           THEN Update(t.state, t.stage_args[i + 1])
                           ELSE t.state,
                 !.running = FALSE]

\* What a call of a stage method does, seen from Trial.run: it raised exc
\* (NoException: it returned (status, update)).
Returned(t, status, has_results, invoked) ==
    [ t |-> t, exc |-> NoException, status |-> status,
      has_results |-> has_results, invoked |-> invoked ]

Raised(t, exc, invoked) ==
    [ t |-> t, exc |-> exc, status |-> 0, has_results |-> FALSE,
      invoked |-> invoked ]

\* lines 250-256, 281-286, 315-319: trial_results is appended to the
\* results, and the whole update is merged into the state
apply_next_state(t, next_state) ==
    LET r == IF next_state["trial_results"] # Absent
             THEN Append(t.results, next_state["trial_results"])
             ELSE t.results
    IN [t EXCEPT !.results = r, !.state = Update(t.state, next_state)]

\* lines 327-333: the end of Trial.run
finish(t, just_finished, invoked) ==
    IF t.stage_index = Len(t.stages) /\ just_finished
    THEN Returned([t EXCEPT !.done = TRUE], 1, TRUE, invoked)
    ELSE Returned(t, 0, FALSE, invoked)

\* lines 235-261: start of a BlockingStage ended with exc
run_blocking_start(t, exc, o, invoked) ==
    IF exc \notin {NoException, "StageAbort", "StageReset", "Ignore"}
    THEN Raised(t, exc, invoked)
    ELSE LET status == IF exc = "StageAbort" THEN 1
                       ELSE IF exc \in {"StageReset", "Ignore"} THEN 0
                       ELSE o.status
             next_state == IF exc = NoException THEN o.update ELSE EmptyDict
             t1 == apply_next_state(t, next_state)
         IN IF status # 0
            THEN finish(next_stage(t1), TRUE, invoked)
            ELSE finish(t1, FALSE, invoked)

\* lines 264-291: start of a Stage ended with exc
run_start(t, exc, o, invoked) ==
    IF exc = "StageAbort" THEN Returned(next_stage(t), 0, FALSE, invoked)
    ELSE IF exc \in {"StageReset", "Ignore"} THEN Returned(t, 0, FALSE, invoked)
    ELSE IF exc # NoException THEN Raised(t, exc, invoked)
    ELSE LET t1 == apply_next_state(t, o.update)
         IN IF o.status # 0
            THEN finish([t1 EXCEPT !.running = TRUE], FALSE, invoked)
            ELSE finish(t1, FALSE, invoked)

\* lines 294-325: is_done of a running Stage ended with exc
run_is_done(t, exc, o, invoked) ==
    IF exc = "StageAbort" THEN Returned(next_stage(t), 0, FALSE, invoked)
    ELSE IF exc = "StageReset" THEN Returned(reset_stage(t), 0, FALSE, invoked)
    ELSE IF exc = "Ignore" THEN Returned(t, 0, FALSE, invoked)
    ELSE IF exc # NoException THEN Raised(t, exc, invoked)
    ELSE LET t1 == apply_next_state(t, o.update)
         IN IF o.status # 0
            THEN finish([next_stage(t1) EXCEPT !.running = FALSE], TRUE, invoked)
            ELSE finish(t1, FALSE, invoked)

\* The body of Trial.run. o is what the body of the stage method does when
\* it is called: it raises o.exc, or returns (o.status, o.update). The stage
\* method is wrapped by handle_exceptions with the stage's own policy (a
\* stage that is not wrapped behaves as a wrapped one with an empty policy).
run_body(t, o) ==
    IF t.done THEN Returned(t, 1, FALSE, <<>>)
    ELSE IF t.stage_index >= Len(t.stages) THEN Raised(t, "IndexError", <<>>)
    ELSE LET i == t.stage_index + 1
             h == handle_exceptions(t.stages[i].error_sequence, o.exc)
             t1 == [t EXCEPT !.stages[i].error_sequence = h.seq]
         IN IF ~t.running
            THEN LET t2 == [t1 EXCEPT !.state_checkpoint = t1.state]
                     invoked == <<[method |-> "start", stage |-> t.stage_index]>>
                 IN IF t.stages[i].blocking
                    THEN run_blocking_start(t2, h.raised, o, invoked)
                    ELSE run_start(t2, h.raised, o, invoked)
            ELSE run_is_done(t1, h.raised, o,
                             <<[method |-> "is_done", stage |-> t.stage_index]>>)

\* Trial.run: the body under handle_exceptions with the trial's policy
Trial_run_wrapper(b) ==
    LET h == handle_exceptions(b.t.error_sequence, b.exc)
    IN [b EXCEPT !.t = [b.t EXCEPT !.error_sequence = h.seq], !.exc = h.raised]

\* Trial.run: the body under the wrapper, the stage answering with o
Trial_run(t, o) == Trial_run_wrapper(run_body(t, o))

---------------------------------------------------------------------------
(* experiment.py: Experiment *)

\* build_stage_objects with one stage_error_sequence for all stages: the
\* sequence is flattened, and each stage class is built on a copy of the
\* flat list, which Stage.__init__ flattens again (a flat list of classes
\* is its own flattening).
build_stage_objects(kinds, compact) ==
    LET flat == _create_error_sequence(compact)
        again == [i \in 1..Len(flat) |-> [tuple |-> FALSE, cls |-> flat[i], count |-> 1]]
    IN [i \in 1..Len(kinds) |->
           [ blocking                |-> kinds[i],
             error_sequence          |-> _create_error_sequence(again),
             original_error_sequence |-> _create_error_sequence(again) ]]

\* Experiment.__init__ with trial_class = Trial: one Trial per entry of
\* per_instance_config, each on stage objects of its own. kinds are the
\* stage classes (TRUE: a BlockingStage). The Experiment keeps no original
\* of its error_sequence.
Experiment(base_trial_config, per_instance_config, trial_arg_configs, kinds, compact, trial_compact, stage_compact) ==
    [ trial_instances    |-> [i \in 1..Len(per_instance_config) |->
                                 Trial(build_stage_objects(kinds, stage_compact),
                                       Update(base_trial_config, per_instance_config[i]),
                                       trial_compact)],
      base_trial_config  |-> base_trial_config,
      per_instance_config |-> per_instance_config,
      trial_arg_configs  |-> trial_arg_configs,
      error_sequence     |-> _create_error_sequence(compact) ]

\* the handling of trial.run() as it would be if `if results:` (lines 495,
\* 543) tested status: results are shipped whenever the step reports the
\* trial complete
step_trial_handlers_ships_on_status(r, drain) ==
    IF r.exc = NoException
       THEN [t |-> r.t, exc |-> NoException, status |-> r.status,
             ships |-> r.status # 0, results |-> r.t.results]
       ELSE IF r.exc = "TrialReset"
       THEN [t |-> reset(r.t), exc |-> NoException, status |-> 0,
             ships |-> TRUE, results |-> r.t.results]
       ELSE IF r.exc = "TrialAbort"
       THEN [t |-> IF drain THEN set_done(r.t) ELSE r.t, exc |-> NoException,
             status |-> 1, ships |-> TRUE, results |-> r.t.results]
       ELSE IF r.exc = "Ignore"
       THEN [t |-> r.t, exc |-> NoException, status |-> 0,
             ships |-> FALSE, results |-> <<>>]
       ELSE [t |-> r.t, exc |-> r.exc, status |-> 0,
             ships |-> FALSE, results |-> <<>>]

\* lines 465-492 and 525-540: the handlers of the try statement of a loop of
\* Experiment.run, r being what trial.run() did. drain tells the second loop,
\* whose TrialAbort handler calls set_done. exc is what the try statement
\* lets through, ships whether results is truthy (a TrialResults always is,
\* None and 0 are not), results the data of that TrialResults.
step_trial_handlers(r, drain) ==
    IF r.exc = NoException
       THEN [t |-> r.t, exc |-> NoException, status |-> r.status,
             ships |-> r.has_results, results |-> r.t.results]
       ELSE IF r.exc = "TrialReset"
       THEN [t |-> reset(r.t), exc |-> NoException, status |-> 0,
             ships |-> TRUE, results |-> r.t.results]
       ELSE IF r.exc = "TrialAbort"
       THEN [t |-> IF drain THEN set_done(r.t) ELSE r.t, exc |-> NoException,
             status |-> 1, ships |-> TRUE, results |-> r.t.results]
       ELSE IF r.exc = "Ignore"
       THEN [t |-> r.t, exc |-> NoException, status |-> 0,
             ships |-> FALSE, results |-> <<>>]
       ELSE [t |-> r.t, exc |-> r.exc, status |-> 0,
             ships |-> FALSE, results |-> <<>>]

\* lines 462-492 and 522-540: the try statement, trial.run() included (the
\* call is made once: r is its outcome)
step_trial(t, o, drain) ==
    CHOOSE s \in {step_trial_handlers(r, drain) : r \in {Trial_run(t, o)}} : TRUE

\* list.pop() as it would be if it dropped the entry before the last as well
pop_two(list) ==
    [value |-> list[Len(list)], list |-> SubSeq(list, 1, Len(list) - 2)]

\* list.pop() of line 506: the last entry is taken off the list and returned
pop(list) ==
    [value |-> list[Len(list)], list |-> SubSeq(list, 1, Len(list) - 1)]

\* the rest of a pass of the first loop as it would be without the test of
\* status at line 500: the slot is started on the next argument set
\* whatever its step returned
fill_pass_after_any_status(e, f, s) ==
    LET slot == f.trial_index + 1
        n == Len(e.trial_arg_configs)
        starts == s.exc = NoException /\ n > 0
        cfg == pop(e.trial_arg_configs).value
        kwargs == Update(Update(e.base_trial_config, e.per_instance_config[slot]), cfg.kwargs)
        t == IF starts THEN new_trial(s.t, cfg.given, cfg.stage_args, kwargs) ELSE s.t
        queue == IF starts THEN pop(e.trial_arg_configs).list ELSE e.trial_arg_configs
    IN [ e |-> [e EXCEPT !.trial_instances[slot] = t, !.trial_arg_configs = queue],
         f |-> IF s.exc # NoException THEN f
               ELSE [f EXCEPT !.trial_index = (f.trial_index + 1) % Len(e.trial_instances),
                              !.pc = IF queue = <<>> THEN "drain" ELSE "fill"],
         exc |-> s.exc, ships |-> s.ships, results |-> s.results, starts |-> starts,
         popped |-> IF starts THEN <<cfg>> ELSE <<>> ]

\* lines 493-512: the rest of a pass of the first loop of Experiment.run
\* after its try statement did s (the loop test included: the pass runs
\* while arguments are pending). The keyword arguments of new_trial are the
\* base configuration, the slot's and the popped argument set; list.pop()
\* takes the last entry.
fill_pass_after(e, f, s) ==
    LET slot == f.trial_index + 1
        n == Len(e.trial_arg_configs)
        starts == s.exc = NoException /\ s.status # 0 /\ n > 0
        cfg == pop(e.trial_arg_configs).value
        kwargs == Update(Update(e.base_trial_config, e.per_instance_config[slot]), cfg.kwargs)
        t == IF starts THEN new_trial(s.t, cfg.given, cfg.stage_args, kwargs) ELSE s.t
        queue == IF starts THEN pop(e.trial_arg_configs).list ELSE e.trial_arg_configs
    IN [ e |-> [e EXCEPT !.trial_instances[slot] = t, !.trial_arg_configs = queue],
         f |-> IF s.exc # NoException THEN f
               ELSE [f EXCEPT !.trial_index = (f.trial_index + 1) % Len(e.trial_instances),
                              !.pc = IF queue = <<>> THEN "drain" ELSE "fill"],
         exc |-> s.exc, ships |-> s.ships, results |-> s.results, starts |-> starts,
         popped |-> IF starts THEN <<cfg>> ELSE <<>> ]

\* lines 459-512: one pass of the first loop, the stage answering with o
fill_pass(e, f, o) ==
    CHOOSE p \in {fill_pass_after(e, f, s) : s \in {step_trial(e.trial_instances[f.trial_index + 1], o, FALSE)}} : TRUE

\* lines 541-551: the rest of the visit of one slot in a sweep of the second
\* loop of Experiment.run after its try statement did s; after the last slot
\* the loop test ends the call or begins the next sweep.
drain_pass_after(e, f, s) ==
    LET slot == f.sweep + 1
        done == (IF f.sweep = 0 THEN TRUE ELSE f.done) /\ s.status # 0
        last == slot = Len(e.trial_instances)
    IN [ e |-> [e EXCEPT !.trial_instances[slot] = s.t],
         f |-> IF s.exc # NoException THEN f
               ELSE [f EXCEPT !.done = done,
                              !.sweep = IF last THEN 0 ELSE f.sweep + 1,
                              !.pc = IF last /\ done THEN "returned" ELSE "drain"],
         exc |-> s.exc, ships |-> s.ships, results |-> s.results, starts |-> FALSE,
         popped |-> <<>> ]

\* lines 515-551: the visit of one slot, the stage answering with o
drain_pass(e, f, o) ==
    CHOOSE p \in {drain_pass_after(e, f, s) : s \in {step_trial(e.trial_instances[f.sweep + 1], o, TRUE)}} : TRUE

\* the wrapper of Experiment.run: what a pass p lets through meets
\* handle_exceptions with the experiment's policy; an exception ends the call.
Experiment_run_wrapper(p) ==
    LET h == handle_exceptions(p.e.error_sequence, p.exc)
    IN [p EXCEPT !.e = [p.e EXCEPT !.error_sequence = h.seq],
                 !.f = IF h.raised = NoException THEN p.f
                       ELSE [p.f EXCEPT !.pc = "raised", !.raised = h.raised],
                 !.exc = h.raised]

\* Experiment.run: a pass of the loop the call is in, under the wrapper
Experiment_run(e, f, o) ==
    CHOOSE r \in {Experiment_run_wrapper(p) : p \in {IF f.pc = "fill" THEN fill_pass(e, f, o) ELSE drain_pass(e, f, o)}} : TRUE

---------------------------------------------------------------------------
(* resource_control.py: ResourceWarden *)

\* the names of the pool: the keys of resource_dict
Names == {"a", "b"}

\* a counting primitive (a BoundedSemaphore built with n units)
Primitive(n) == [value |-> n, initial |-> n]

\* primitive.acquire(...) that does not wait for another holder: a unit is
\* taken when one is left, and the answer says whether one was taken
primitive_acquire(prim) ==
    IF prim.value > 0
    THEN [success |-> TRUE, prim |-> [prim EXCEPT !.value = @ - 1]]
    ELSE [success |-> FALSE, prim |-> prim]

\* primitive.release()
primitive_release(prim) == [prim EXCEPT !.value = @ + 1]

\* the specs of acquire: a name, a dict (its keys in iteration order, each
\* with the options handed to the primitive), or a value of another type
Str(r) == [type |-> "str", name |-> r, names |-> <<>>]
Map(rs) == [type |-> "dict", name |-> "", names |-> rs]
Other == [type |-> "list", name |-> "", names |-> <<>>]

\* ResourceWarden.release as it would be if it released nothing
ResourceWarden_release_nothing(d, resources) == [resource_dict |-> d, released |-> <<>>]

\* ResourceWarden.release(*resources)
RECURSIVE ResourceWarden_release(_, _)
ResourceWarden_release(d, resources) ==
    IF resources = <<>> THEN [resource_dict |-> d, released |-> <<>>]
    ELSE LET r == Head(resources)
             rest == ResourceWarden_release([d EXCEPT ![r] = primitive_release(@)],
                                            Tail(resources))
         IN [rest EXCEPT !.released = <<r>> \o @]

\* the locals of acquire; bound says whether success has been assigned
NoLocals(d) ==
    [resource_dict |-> d, acquired |-> <<>>, bound |-> FALSE, success |-> FALSE,
     attempted |-> <<>>]

\* lines 19-21 and 24-26: one primitive is asked, and appended when it agrees
acquire_one(st, r) ==
    LET a == primitive_acquire(st.resource_dict[r])
    IN [resource_dict |-> [st.resource_dict EXCEPT ![r] = a.prim],
        acquired |-> IF a.success THEN Append(st.acquired, r) ELSE st.acquired,
        bound |-> TRUE,
        success |-> a.success,
        attempted |-> Append(st.attempted, r)]

\* lines 23-26: the loop over the keys of a dict spec; it has no exit of its
\* own, so success is the answer of the last key
RECURSIVE acquire_mapping(_, _)
acquire_mapping(st, names) ==
    IF names = <<>> THEN st
    ELSE acquire_mapping(acquire_one(st, Head(names)), Tail(names))

\* lines 17-32: the loop over the specs
RECURSIVE acquire_loop(_, _)
acquire_loop(st, resources) ==
    IF resources = <<>>
    THEN [resource_dict |-> st.resource_dict, result |-> st.acquired,
          raised |-> NoException, attempted |-> st.attempted, released |-> <<>>]
    ELSE LET resource == Head(resources)
             st1 == IF resource.type = "str" THEN acquire_one(st, resource.name)
                    ELSE acquire_mapping(st, resource.names)
         IN IF resource.type \notin {"str", "dict"}
            THEN [resource_dict |-> st.resource_dict, result |-> <<>>,
                  raised |-> "TypeError", attempted |-> st.attempted,
                  released |-> <<>>]
            ELSE IF ~st1.bound
            THEN [resource_dict |-> st1.resource_dict, result |-> <<>>,
                  raised |-> "UnboundLocalError", attempted |-> st1.attempted,
                  released |-> <<>>]
            ELSE IF ~st1.success
            THEN LET rel == ResourceWarden_release(st1.resource_dict, st1.acquired)
                 IN [resource_dict |-> rel.resource_dict, result |-> <<>>,
                     raised |-> NoException, attempted |-> st1.attempted,
                     released |-> rel.released]
            ELSE acquire_loop(st1, Tail(resources))

\* ResourceWarden.acquire(*resources)
ResourceWarden_acquire(d, resources) == acquire_loop(NoLocals(d), resources)

\* no call of the warden yet
NoWardenCall ==
    [call |-> "init", resources |-> <<>>, before |-> <<>>, result |-> <<>>,
     raised |-> NoException, attempted |-> <<>>, released |-> <<>>]

\* the variables of SpecWarden when no warden is modelled
NoWarden ==
    /\ resource_dict = <<>>
    /\ warden = NoWardenCall

---------------------------------------------------------------------------
(* resource_control.py: ResourceContainer *)

\* ResourceContainer.__init__(resource_warden, resources)
ResourceContainer(resources) == [resources |-> resources, chunk_marker |-> 0]

\* a list without its entry at position pos (counted from 1)
Without(list, pos) == SubSeq(list, 1, pos - 1) \o SubSeq(list, pos + 1, Len(list))

\* what a method of the container leaves: the container, the pool of its
\* warden, what it returns and what it raises
Outcome(c, d, result, raised) == [c |-> c, d |-> d, result |-> result, raised |-> raised]

\* lines 58-60 as they would be without line 59: what the warden handed
\* over is returned, and not entered in the ledger
ResourceContainer_acquire_after_unrecorded(c, a) ==
    [ c |-> c,
      d |-> a.resource_dict,
      result |-> a.result,
      raised |-> a.raised,
      returned_true |-> FALSE ]

\* ResourceContainer.acquire(*resources); result is the list returned
\* (line 56 returns True for no resources: returned_true)
ResourceContainer_acquire_after(c, a) ==
    [ c |-> IF a.raised = NoException /\ a.result # <<>>
            THEN [c EXCEPT !.resources = @ \o a.result] ELSE c,
      d |-> a.resource_dict,
      result |-> a.result,
      raised |-> a.raised,
      returned_true |-> FALSE ]

ResourceContainer_acquire(c, d, resources) ==
    IF Len(resources) = 0
    THEN [c |-> c, d |-> d, result |-> <<>>, raised |-> NoException, returned_true |-> TRUE]
    ELSE ResourceContainer_acquire_after(c, ResourceWarden_acquire(d, resources))

\* lines 63-74 with list indexing as Python does it: index counts from 0,
\* a negative index from the end; rel is what the warden's release did
ResourceContainer_release_after(c, index, rel) ==
    LET L == Len(c.resources)
        pos == IF index >= 0 THEN index + 1 ELSE L + index + 1
        popped == Without(c.resources, pos)
        behind == Len(popped) > 0 /\ (Len(popped) + index) % Len(popped) < c.chunk_marker
        marker == IF behind THEN c.chunk_marker - 1 ELSE c.chunk_marker
    IN IF rel.released = <<>> THEN Outcome(c, rel.resource_dict, rel.released, NoException)
       ELSE Outcome([resources |-> popped, chunk_marker |-> marker], rel.resource_dict,
                    rel.released, IF marker < 0 THEN "Exception" ELSE NoException)

\* ResourceContainer.release(index)
ResourceContainer_release(c, d, index) ==
    LET L == Len(c.resources)
    IN IF index >= L \/ index < 0 - L THEN Outcome(c, d, <<>>, "IndexError")
       ELSE ResourceContainer_release_after(c, index,
                ResourceWarden_release(d, <<c.resources[IF index >= 0 THEN index + 1
                                                         ELSE L + index + 1]>>))

\* lines 80-82: num calls of release(), their results appended to released;
\* an exception of release ends the call
RECURSIVE release_chunk_loop(_, _, _)
release_chunk_step(r, num, released) ==
    IF r.raised # NoException THEN Outcome(r.c, r.d, released, r.raised)
    ELSE release_chunk_loop(r, num - 1, Append(released, r.result))

release_chunk_loop(o, num, released) ==
    IF num <= 0 THEN Outcome(o.c, o.d, released, NoException)
    ELSE release_chunk_step(ResourceContainer_release(o.c, o.d, 0 - 1), num, released)

\* the argument num: None (the default), or a count
None == <<>>
Num(n) == <<n>>

\* ResourceContainer.release_chunk(num)
release_chunk(c, d, num) ==
    release_chunk_loop(Outcome(c, d, <<>>, NoException),
                       IF num = None THEN Len(c.resources) - c.chunk_marker ELSE num[1],
                       <<>>)

\* ResourceContainer.reset_chunk_marker()
reset_chunk_marker(c) == [c EXCEPT !.chunk_marker = Len(c.resources)]

\* ResourceContainer.release_all()
release_all(c, d) == release_chunk(c, d, Num(Len(c.resources)))

\* no call of the container yet
NoContainerCall ==
    [call |-> "init", index |-> 0, num |-> None, before |-> ResourceContainer(<<>>),
     boundary |-> 0, result |-> <<>>, raised |-> NoException]

\* the variables of SpecContainer when no container is modelled
NoContainer ==
    /\ container = ResourceContainer(<<>>)
    /\ contained = NoContainerCall
    /\ normal = TRUE
    /\ boundary = 0

---------------------------------------------------------------------------
(* The values of the variables of SpecExperiment before run is called *)

NoFrame == [pc |-> "idle", trial_index |-> 0, sweep |-> 0, done |-> FALSE, raised |-> NoException]

NoEscalation ==
    [ failure |-> FALSE, stage_empty |-> FALSE, trial_empty |-> FALSE,
      stage_consumed |-> FALSE, trial_consumed |-> FALSE, experiment_consumed |-> FALSE ]

\* no new_trial call yet, of an experiment built with the given queue
NoneAssigned(queue) == [queue |-> queue, given |-> <<>>]

\* no pass yet
NoPass ==
    [ slot |-> 0, drain |-> FALSE, raised |-> NoException, pending |-> 0,
      had |-> <<>>, ships |-> FALSE, results |-> <<>>,
      done_before |-> FALSE, done_after |-> FALSE, status |-> 0, starts |-> FALSE ]

\* the variables of SpecExperiment when no experiment is modelled
NoExperiment ==
    /\ experiment = Experiment(EmptyDict, <<>>, <<>>, <<>>, <<>>, <<>>, <<>>)
    /\ frame = NoFrame
    /\ escalated = NoEscalation
    /\ assigned = NoneAssigned(<<>>)
    /\ passed = NoPass

---------------------------------------------------------------------------
(* SpecTrial: a Trial built on its stages and driven through its public    *)
(* methods (new_trial, run, reset, set_done) in any order, the stages      *)
(* answering each call in any way their contract allows                    *)

Bare(cls) == [tuple |-> FALSE, cls |-> cls, count |-> 1]
Pair(cls, n) == [tuple |-> TRUE, cls |-> cls, count |-> n]

\* the policies given to the stages, and to the trial
StagePolicies == {<<Bare("StageReset")>>}
TrialPolicies == {<<Bare("TrialReset")>>}

\* the updates a stage returns
StageUpdates ==
    {EmptyDict, Dict("u", "r"), Dict(Absent, "s")}

\* what the body of a stage method raises: a control outcome of each tier
\* and handling (TrialReset is handled as TrialAbort is, ExperimentReset as
\* ExperimentAbort), or a failure
StageRaises == {"StageAbort", "StageReset", "Ignore", "TrialAbort", "ExperimentAbort", "Error"}

\* what the body of a stage method does when called
StageOutcomes ==
    [exc : {NoException}, status : {0, 1}, update : StageUpdates]
        \cup [exc : StageRaises, status : {0}, update : {EmptyDict}]

\* the stage lists: every mix of blocking and pollable stages
StageKinds == SeqsUpTo(BOOLEAN, MaxStages) \ {<<>>}

\* the argument sets handed to new_trial for a trial of K stages: none, or
\* a list of at most two entries (fewer than the stages when K > 2)
StageArgs(K) ==
    {[given |-> FALSE, args |-> <<>>],
     [given |-> TRUE,
      args |-> SubSeq(<<Dict("u", Absent), Dict("v", Absent)>>, 1, IF K < 2 THEN K ELSE 2)]}

\* keyword arguments of new_trial
Kwargs == {Dict("v", Absent)}

NoMethod ==
    [ call |-> "init", invoked |-> <<>>, stage_exc |-> NoException,
      status |-> 0, has_results |-> FALSE, spent |-> FALSE ]

\* some working policy of the trial or of a stage it owns is not its original
Spent(t) ==
    \/ t.error_sequence # t.original_error_sequence
    \/ \E i \in 1..Len(t.stages) : t.stages[i].error_sequence # t.stages[i].original_error_sequence

\* the variables of SpecTrial when no trial is modelled
NoTrial ==
    /\ trial = Trial(<<>>, EmptyDict, <<>>)
    /\ called = NoMethod
    /\ emitted = <<>>
    /\ completions = 0
    /\ clean = FALSE
    /\ snapshot = EmptyDict
    /\ ended = {}

\* the variables of SpecPolicy when no single entity is modelled
NoPolicy ==
    /\ error_sequence = <<>>
    /\ original_error_sequence = <<>>
    /\ intercepted = [call |-> "init", exc |-> NoException, raised |-> NoException, before |-> <<>>]
    /\ supplied = <<>>
    /\ nfail = 0

TrialInit ==
    /\ \E kinds \in StageKinds, sp \in StagePolicies, tp \in TrialPolicies :
          trial = Trial([i \in 1..Len(kinds) |-> Stage(kinds[i], sp)], EmptyDict, tp)
    /\ called = NoMethod
    /\ emitted = <<>>
    /\ completions = 0
    /\ clean = FALSE
    /\ snapshot = EmptyDict
    /\ ended = {}
    /\ NoPolicy
    /\ NoExperiment
    /\ NoWarden
    /\ NoContainer

\* trial.new_trial(stage_args, **kwargs)
CallNewTrial ==
    \E sa \in StageArgs(Len(trial.stages)), kw \in Kwargs :
        /\ trial' = new_trial(trial, sa.given, sa.args, kw)
        /\ called' = [NoMethod EXCEPT !.call = "new_trial", !.spent = Spent(trial)]
        /\ emitted' = <<>>
        /\ completions' = 0
        /\ clean' = TRUE
        /\ ended' = {}
        /\ snapshot' = trial'.state
        /\ UNCHANGED <<policyVars, experimentVars, wardenVars, containerVars>>

\* trial.reset(); without stage_args the call ends in an AttributeError
CallReset ==
    /\ trial.has_stage_args
    /\ trial' = reset(trial)
    /\ called' = [NoMethod EXCEPT !.call = "reset", !.spent = Spent(trial)]
    /\ emitted' = <<>>
    /\ completions' = 0
    /\ clean' = FALSE
    /\ ended' = {}
    /\ snapshot' = trial'.state
    /\ UNCHANGED <<policyVars, experimentVars, wardenVars, containerVars>>

\* trial.set_done()
CallSetDone ==
    /\ trial.has_stage_args
    /\ trial' = set_done(trial)
    /\ called' = [NoMethod EXCEPT !.call = "set_done"]
    /\ clean' = FALSE
    /\ UNCHANGED <<emitted, completions, snapshot, ended, policyVars, experimentVars, wardenVars, containerVars>>

\* trial.run(), the stage answering with o
CallRun(o) ==
    LET r == Trial_run(trial, o)
        calls == ~trial.done /\ trial.stage_index < Len(trial.stages)
        stage == trial.stages[trial.stage_index + 1]
        \* what leaves the stage method (its wrapper applied)
        sexc == IF calls THEN handle_exceptions(stage.error_sequence, o.exc).raised
                ELSE NoException
        said == calls /\ sexc = NoException
        \* a completion signal: a non-zero status from a blocking start or
        \* from is_done
        complete == said /\ o.status # 0 /\ (trial.running \/ stage.blocking)
        emits == said /\ o.update["trial_results"] # Absent
    IN /\ emits => Len(emitted) < MaxResults
       /\ trial' = r.t
       /\ called' = [ call |-> "run", invoked |-> r.invoked, stage_exc |-> sexc,
                      status |-> r.status, has_results |-> r.has_results, spent |-> FALSE ]
       /\ emitted' = IF emits THEN Append(emitted, o.update["trial_results"]) ELSE emitted
       /\ completions' = IF complete THEN completions + 1 ELSE completions
       /\ clean' = (clean /\ (calls => o.exc = NoException))
       /\ snapshot' = IF calls /\ ~trial.running THEN trial.state ELSE snapshot
       /\ ended' = IF complete \/ (calls /\ sexc = "StageAbort")
                   THEN ended \cup {trial.stage_index} ELSE ended
       /\ UNCHANGED <<policyVars, experimentVars, wardenVars, containerVars>>

TrialNext ==
    \/ CallNewTrial
    \/ CallReset
    \/ CallSetDone
    \/ \E o \in StageOutcomes : CallRun(o)

SpecTrial == TrialInit /\ [][TrialNext]_vars

---------------------------------------------------------------------------
(* SpecExperiment: an Experiment built on its configuration, and one call  *)
(* of Experiment.run, pass by pass                                         *)

\* the policies given to the stages, the trials and the experiment (a stage
\* policy holds no repeat-forever entry: build_stage_objects flattens it
\* twice, and the 0 of a flat list is no entry)
ExpStagePolicies == {<<>>, <<Bare("ExperimentAbort")>>}
ExpTrialPolicies == {<<Bare("TrialReset")>>, <<Bare("ExperimentAbort")>>}
ExpPolicies == {<<Bare("ExperimentReset")>>}

\* the stage classes
ExpStageKinds == {<<TRUE, FALSE>>}

\* what the body of a stage method does when called
ExpStageOutcomes ==
    [exc : {NoException}, status : {0, 1}, update : {EmptyDict, Dict(Absent, "r")}]
        \cup [exc : {"StageAbort", "TrialAbort", "TrialReset", "Error"},
              status : {0}, update : {EmptyDict}]

\* a pending argument set: the keyword arguments of one new_trial call
ArgConfig(x) == [given |-> FALSE, stage_args |-> <<>>, kwargs |-> Dict(x, Absent)]

\* the queues: the first entries of u, v, u, v, ...
Queues ==
    {[i \in 1..n |-> ArgConfig(IF i % 2 = 1 THEN "u" ELSE "v")] : n \in 0..MaxQueue}

ExperimentInit ==
    /\ \E S \in 1..MaxSlots, queue \in Queues, kinds \in ExpStageKinds,
          ep \in ExpPolicies, tp \in ExpTrialPolicies, sp \in ExpStagePolicies :
          /\ experiment = Experiment(EmptyDict, [i \in 1..S |-> EmptyDict], queue, kinds, ep, tp, sp)
          /\ assigned = NoneAssigned(queue)
    /\ frame = NoFrame
    /\ escalated = NoEscalation
    /\ passed = NoPass
    /\ NoPolicy
    /\ NoTrial
    /\ NoWarden
    /\ NoContainer

\* experiment.run() is called: lines 455-456 and the first loop test
CallExperimentRun ==
    /\ frame.pc = "idle"
    /\ frame' = [NoFrame EXCEPT !.pc = IF experiment.trial_arg_configs # <<>>
                                       THEN "fill" ELSE "drain"]
    /\ UNCHANGED <<experiment, escalated, assigned, passed, policyVars, trialVars, wardenVars, containerVars>>

\* one pass of a loop of run, the stage that is called answering with o
Pass(o) ==
    LET slot == IF frame.pc = "fill" THEN frame.trial_index + 1 ELSE frame.sweep + 1
        t == experiment.trial_instances[slot]
        calls == ~t.done /\ t.stage_index < Len(t.stages)
        emits == calls /\ o.exc = NoException /\ o.update["trial_results"] # Absent
        \* the wrappers of the stage and of the trial, met on the way up
        sh == handle_exceptions(t.stages[t.stage_index + 1].error_sequence, o.exc)
        tr == Trial_run(t, o)
        th == tr.t.error_sequence
    IN /\ emits => Len(t.results) < MaxResults
       /\ \E p \in {Experiment_run(experiment, frame, o)} :
             /\ experiment' = p.e
             /\ frame' = p.f
             /\ escalated' =
                   IF calls /\ o.exc \in Unexpected
                   THEN [ failure |-> TRUE,
                          stage_empty |-> t.stages[t.stage_index + 1].error_sequence = <<>>,
                          trial_empty |-> t.error_sequence = <<>>,
                          stage_consumed |-> sh.seq # t.stages[t.stage_index + 1].error_sequence,
                          trial_consumed |-> th # t.error_sequence,
                          experiment_consumed |-> p.e.error_sequence # experiment.error_sequence ]
                   ELSE NoEscalation
             /\ assigned' = IF p.starts
                             THEN [assigned EXCEPT !.given = Append(@, [slot |-> slot, config |-> p.popped[1]])]
                             ELSE assigned
             /\ passed' = [ slot |-> slot, drain |-> frame.pc = "drain", raised |-> tr.exc,
                            pending |-> Len(experiment.trial_arg_configs),
                            had |-> t.results, ships |-> p.ships, results |-> p.results,
                            done_before |-> t.done, done_after |-> tr.t.done,
                            status |-> tr.status, starts |-> p.starts ]
       /\ UNCHANGED <<policyVars, trialVars, wardenVars, containerVars>>

ExperimentFill == frame.pc = "fill" /\ \E o \in ExpStageOutcomes : Pass(o)

ExperimentDrain == frame.pc = "drain" /\ \E o \in ExpStageOutcomes : Pass(o)

ExperimentNext ==
    \/ CallExperimentRun
    \/ ExperimentFill
    \/ ExperimentDrain

SpecExperiment == ExperimentInit /\ [][ExperimentNext]_vars

---------------------------------------------------------------------------
(* SpecDrain: an Experiment and one call of run whose stages return, or    *)
(* raise StageAbort, and of which none answers "not complete" for ever     *)

\* what the body of a stage method does when called: it returns, or it
\* raises StageAbort
DrainStageOutcomes ==
    [exc : {NoException}, status : {0, 1}, update : {EmptyDict, Dict(Absent, "r")}]
        \cup [exc : {"StageAbort"}, status : {0}, update : {EmptyDict}]

\* a pass of the first loop
DrainFill == frame.pc = "fill" /\ \E o \in DrainStageOutcomes : Pass(o)

\* a pass of the second loop
DrainSweep == frame.pc = "drain" /\ \E o \in DrainStageOutcomes : Pass(o)

\* a pass that visits slot s, the stage it calls answering "complete"
Completes(s) ==
    /\ frame.pc \in {"fill", "drain"}
    /\ s = (IF frame.pc = "fill" THEN frame.trial_index + 1 ELSE frame.sweep + 1)
    /\ Pass([exc |-> NoException, status |-> 1, update |-> EmptyDict])

DrainNext ==
    \/ CallExperimentRun
    \/ DrainFill
    \/ DrainSweep

\* run is called and its loops keep running (weak fairness of the steps);
\* no stage of a slot answers "not complete" for ever (strong fairness of
\* the completing answer, slot by slot)
SpecDrain ==
    /\ ExperimentInit
    /\ [][DrainNext]_vars
    /\ WF_vars(DrainNext)
    /\ \A s \in 1..MaxSlots : SF_vars(Completes(s))

---------------------------------------------------------------------------
(* SpecPolicy: an entity built with a compact policy, whose wrapped method *)
(* is called and fails, and whose policy is reset                          *)

NoCall == [call |-> "init", exc |-> NoException, raised |-> NoException, before |-> <<>>]

PolicyInit ==
    /\ \E compact \in CompactPolicies :
        /\ error_sequence = _create_error_sequence(compact)
        /\ original_error_sequence = _create_error_sequence(compact)
        /\ intercepted = NoCall
        /\ supplied = compact
        /\ nfail = 0
    /\ NoTrial
    /\ NoExperiment
    /\ NoWarden
    /\ NoContainer

\* the policy is consulted for exc (the wrapper's "except Exception" branch)
Consults(exc) == exc \in Exceptions \ Bypass

\* a wrapped method of the entity ends with exc, as it would be if the
\* constructor kept the working list itself as the original (no copy())
Intercept_shared(exc) ==
    /\ Consults(exc) => nfail < MaxFailures
    /\ LET h == handle_exceptions(error_sequence, exc)
       IN /\ error_sequence' = h.seq
          /\ original_error_sequence' = h.seq
          /\ intercepted' = [call |-> "wrapped", exc |-> exc, raised |-> h.raised, before |-> error_sequence]
    /\ nfail' = IF Consults(exc) THEN nfail + 1 ELSE nfail
    /\ UNCHANGED <<supplied, trialVars, experimentVars, wardenVars, containerVars>>

\* a wrapped method of the entity ends with exc
Intercept(exc) ==
    /\ Consults(exc) => nfail < MaxFailures
    /\ LET h == handle_exceptions(error_sequence, exc)
       IN /\ error_sequence' = h.seq
          /\ intercepted' = [call |-> "wrapped", exc |-> exc, raised |-> h.raised, before |-> error_sequence]
    /\ nfail' = IF Consults(exc) THEN nfail + 1 ELSE nfail
    /\ UNCHANGED <<original_error_sequence, supplied, trialVars, experimentVars, wardenVars, containerVars>>

\* Stage.reset_error_sequence / BlockingStage.reset_error_sequence
reset_error_sequence ==
    /\ error_sequence' = original_error_sequence
    /\ intercepted' = [NoCall EXCEPT !.call = "reset", !.before = error_sequence]
    /\ nfail' = 0
    /\ UNCHANGED <<original_error_sequence, supplied, trialVars, experimentVars, wardenVars, containerVars>>

PolicyNext ==
    \/ \E exc \in Exceptions : Intercept(exc)
    \/ reset_error_sequence

SpecPolicy == PolicyInit /\ [][PolicyNext]_vars

---------------------------------------------------------------------------
(* SpecWarden: a ResourceWarden over a pool of primitives, its acquire and *)
(* release called with any specs                                           *)

\* the dict specs: every choice of keys, in every order
Mappings ==
    {Map(rs) : rs \in {s \in SeqsUpTo(Names, Cardinality(Names)) :
                          \A i, j \in DOMAIN s : i # j => s[i] # s[j]}}

Specs == {Str(r) : r \in Names} \cup Mappings \cup {Other}

WardenInit ==
    /\ \E units \in [Names -> 1..MaxUnits] :
          resource_dict = [r \in Names |-> Primitive(units[r])]
    /\ warden = NoWardenCall
    /\ NoPolicy
    /\ NoTrial
    /\ NoExperiment
    /\ NoContainer

\* warden.acquire(*resources)
CallAcquire ==
    \E resources \in SeqsUpTo(Specs, MaxSpecs) :
        LET a == ResourceWarden_acquire(resource_dict, resources)
        IN /\ resource_dict' = a.resource_dict
           /\ warden' = [call |-> "acquire", resources |-> resources,
                         before |-> resource_dict, result |-> a.result,
                         raised |-> a.raised, attempted |-> a.attempted,
                         released |-> a.released]
           /\ UNCHANGED <<policyVars, trialVars, experimentVars, containerVars>>

\* warden.release(*names), of units that are held
CallRelease ==
    \E names \in SeqsUpTo(Names, MaxSpecs) \ {<<>>} :
        LET rel == ResourceWarden_release(resource_dict, names)
        IN /\ \A r \in Names : rel.resource_dict[r].value <= rel.resource_dict[r].initial
           /\ resource_dict' = rel.resource_dict
           /\ warden' = [call |-> "release", resources |-> names,
                         before |-> resource_dict, result |-> rel.released,
                         raised |-> NoException, attempted |-> <<>>,
                         released |-> rel.released]
           /\ UNCHANGED <<policyVars, trialVars, experimentVars, containerVars>>

WardenNext ==
    \/ CallAcquire
    \/ CallRelease

SpecWarden == WardenInit /\ [][WardenNext]_vars

---------------------------------------------------------------------------
(* SpecContainer: a ResourceContainer on a ResourceWarden over a pool of   *)
(* primitives, its methods called in any order with any arguments          *)

\* the specs handed to the container's acquire
ContainerSpecs == {Str(r) : r \in Names} \cup Mappings \cup {Other}

Min(a, b) == IF a < b THEN a ELSE b

ContainerInit ==
    /\ \E units \in [Names -> 1..MaxUnits] :
          resource_dict = [r \in Names |-> Primitive(units[r])]
    /\ container = ResourceContainer(<<>>)
    /\ contained = NoContainerCall
    /\ normal = TRUE
    /\ boundary = 0
    /\ warden = NoWardenCall
    /\ NoPolicy
    /\ NoTrial
    /\ NoExperiment

\* the call that o is the outcome of is recorded in the history
Called(call, index, num, o) ==
    /\ container' = o.c
    /\ resource_dict' = o.d
    /\ contained' = [call |-> call, index |-> index, num |-> num, before |-> container,
                     boundary |-> boundary, result |-> o.result, raised |-> o.raised]
    /\ normal' = (normal /\ o.raised = NoException)
    /\ UNCHANGED <<warden, policyVars, trialVars, experimentVars>>

\* container.acquire(*resources)
ContainerAcquire ==
    \E resources \in SeqsUpTo(ContainerSpecs, MaxSpecs) :
        \E o \in {ResourceContainer_acquire(container, resource_dict, resources)} :
            /\ Called("acquire", 0, None, o)
            /\ boundary' = boundary

\* container.release(index): every index of the ledger, from either end, and
\* the first past each end
ContainerRelease ==
    \E index \in (0 - Len(container.resources) - 1)..Len(container.resources) :
        \E o \in {ResourceContainer_release(container, resource_dict, index)} :
            /\ Called("release", index, None, o)
            /\ boundary' =
                  IF Len(o.c.resources) < Len(container.resources)
                     /\ (IF index >= 0 THEN index
                         ELSE Len(container.resources) + index) < boundary
                  THEN boundary - 1 ELSE boundary

\* container.release_chunk(num): no count, or any count up to one more than
\* the ledger holds
ContainerReleaseChunk ==
    \E num \in {None} \cup {Num(n) : n \in 0..(Len(container.resources) + 1)} :
        \E o \in {release_chunk(container, resource_dict, num)} :
            /\ Called("release_chunk", 0, num, o)
            /\ boundary' = Min(boundary, Len(o.c.resources))

\* container.reset_chunk_marker()
ContainerResetChunkMarker ==
    /\ Called("reset_chunk_marker", 0, None,
              Outcome(reset_chunk_marker(container), resource_dict, <<>>, NoException))
    /\ boundary' = Len(container.resources)

\* container.release_all()
ContainerReleaseAll ==
    \E o \in {release_all(container, resource_dict)} :
        /\ Called("release_all", 0, None, o)
        /\ boundary' = Min(boundary, Len(o.c.resources))

ContainerNext ==
    \/ ContainerAcquire
    \/ ContainerRelease
    \/ ContainerReleaseChunk
    \/ ContainerResetChunkMarker
    \/ ContainerReleaseAll

SpecContainer == ContainerInit /\ [][ContainerNext]_vars

---------------------------------------------------------------------------
(* Claims on the escalation policy (SpecPolicy) *)

\* the flat sequence holds no repeat-forever entry
NoForever(seq) == \A i \in 1..Len(seq) : seq[i] # Forever

\* a repeat-forever entry is at the front of the flat sequence
ForeverAtFront(seq) == Len(seq) >= 2 /\ seq[2] = Forever

\* C5: for a policy of N >= 1 entries, none of them repeat-forever, the i-th
\* failure the wrapper routes through the policy since the policy was built
\* (or reset) raises the i-th entry and removes exactly that entry, for
\* i <= N; every later failure leaves the wrapper as it came, the policy
\* staying empty.
C5_EscalatesInOrderThenPropagates ==
    LET N == Len(original_error_sequence)
        i == nfail
    IN (N >= 1 /\ NoForever(original_error_sequence) /\ Consults(intercepted.exc)) =>
          IF i <= N
          THEN /\ intercepted.raised = original_error_sequence[i]
               /\ intercepted.before = SubSeq(original_error_sequence, i, N)
               /\ error_sequence = SubSeq(original_error_sequence, i + 1, N)
          ELSE /\ intercepted.raised = intercepted.exc
               /\ intercepted.before = <<>>
               /\ error_sequence = <<>>

\* C5 witness: the (N+1)-th failure of a policy of two different entries
\* has just propagated unchanged
C5_Witness ==
    /\ NoForever(original_error_sequence)
    /\ Len(original_error_sequence) >= 2
    /\ original_error_sequence[1] # original_error_sequence[2]
    /\ nfail = Len(original_error_sequence) + 1
    /\ intercepted.exc = "Error"
    /\ intercepted.raised = "Error"

\* C6: a failure routed through a policy whose front entry is repeat-forever
\* raises that entry's kind and leaves the working sequence as it was (so the
\* entry is still at the front for the next failure).
C6_RepeatForeverNeverShrinks ==
    (ForeverAtFront(intercepted.before) /\ Consults(intercepted.exc)) =>
        /\ intercepted.raised = intercepted.before[1]
        /\ error_sequence = intercepted.before
        /\ ForeverAtFront(error_sequence)

\* C6 witness: the third failure in a row answered by a repeat-forever entry
\* that became the front after an ordinary entry was consumed
C6_Witness ==
    /\ ForeverAtFront(intercepted.before)
    /\ ~ForeverAtFront(original_error_sequence)
    /\ intercepted.exc = "Error"
    /\ nfail >= 4

\* C8: TrialAbort, TrialReset, StageAbort and StageReset leave the wrapper
\* as raised, and the owner's working policy is as it was before the call.
C8_CanonicalOutcomesBypassPolicy ==
    intercepted.exc \in Bypass =>
        /\ intercepted.raised = intercepted.exc
        /\ error_sequence = intercepted.before

\* C8 witness: a StageReset went through a wrapper whose policy had entries
\* of another kind to offer
C8_Witness ==
    /\ intercepted.exc = "StageReset"
    /\ intercepted.before # <<>>
    /\ intercepted.before[1] # "StageReset"

\* C9 (as claimed): Ignore, ExperimentAbort and ExperimentReset leave the
\* wrapper as raised, and no policy entry is consumed.
C9_AllControlOutcomesBypassPolicy ==
    intercepted.exc \in {"Ignore", "ExperimentAbort", "ExperimentReset"} =>
        /\ intercepted.raised = intercepted.exc
        /\ error_sequence = intercepted.before

---------------------------------------------------------------------------
(* Claims on the Trial state machine (SpecTrial) *)

\* the number of stages of the trial
K == Len(trial.stages)

\* the last call was a run that called method m of some stage
Invoked(m) ==
    /\ called.call = "run"
    /\ called.invoked # <<>>
    /\ called.invoked[1].method = m

\* C1: in a life begun by new_trial in which no stage has raised anything,
\* the trial is Done exactly when K completion signals (a non-zero status
\* from a blocking start or from is_done) have been given; the run call that
\* made it Done returned (1, results), and the results are the trial_results
\* values the stages returned, in the order returned.
C1_DoneAfterKCompletions ==
    clean =>
        /\ trial.done <=> completions = K
        /\ (trial.done /\ called.invoked # <<>>) =>
               (called.call = "run" /\ called.status = 1 /\ called.has_results)
        /\ trial.done => trial.results = emitted

\* C1 witness: a trial of two stages has just become Done, its two stages
\* having returned two different results
C1_Witness ==
    /\ clean
    /\ trial.done
    /\ K = 2
    /\ called.invoked # <<>>
    /\ emitted = <<"r", "s">>

\* C2 (as claimed): once the trial has an argument set, stage_index =
\* len(stages) implies done.
C2_IndexPastLastImpliesDone ==
    trial.has_stage_args => (trial.stage_index = K => trial.done)

\* C3, the state part: a run calls at most one stage method, and start of
\* stage n is called only when every earlier stage has ended in this life,
\* by a completion signal or a StageAbort.
C3_Sequential ==
    called.call = "run" =>
        /\ Len(called.invoked) <= 1
        /\ Invoked("start") =>
               \A j \in 0..(called.invoked[1].stage - 1) : j \in ended

\* C3, the step part: a run leaves stage_index as it is or adds one to it,
\* set_done leaves it as it is (new_trial and reset begin a new life).
C3_Step ==
    /\ called'.call = "run" =>
           trial'.stage_index \in {trial.stage_index, trial.stage_index + 1}
    /\ called'.call = "set_done" => trial'.stage_index = trial.stage_index

\* C3: stages run strictly one after the other, at most one stage boundary
\* and one stage method per run.
C3_StagesInOrder == []C3_Sequential /\ [][C3_Step]_vars

\* C3 witness: start of the second stage is called after the first stage
\* ended by a StageAbort (no completion signal was given)
C3_Witness ==
    /\ Invoked("start")
    /\ called.invoked[1].stage = 1
    /\ completions = 0
    /\ ended = {0}

\* is_done of the running stage has just raised StageReset
StageResetWhileRunning == Invoked("is_done") /\ called.stage_exc = "StageReset"

\* C4, the state part: after is_done of a running stage raised StageReset,
\* the state is the one the trial had just before the latest start call,
\* running is false and stage_index is the index of that stage.
C4_Restored ==
    StageResetWhileRunning =>
        /\ trial.state = snapshot
        /\ ~trial.running
        /\ ~trial.done
        /\ trial.stage_index = called.invoked[1].stage

\* C4, the step part: the run that follows calls start of the same stage.
C4_Step ==
    (StageResetWhileRunning /\ called'.call = "run") =>
        called'.invoked = <<[method |-> "start", stage |-> trial.stage_index]>>

\* C4: a StageReset from is_done rolls the state back to the snapshot taken
\* before the stage's start, and the stage is started again.
C4_StageResetRestoresSnapshot == []C4_Restored /\ [][C4_Step]_vars

\* C4 witness: the rollback discarded an update: a returned trial_results
\* value is in the results and no longer in the state
C4_Witness ==
    /\ StageResetWhileRunning
    /\ trial.results # <<>>
    /\ trial.state["trial_results"] = Absent

---------------------------------------------------------------------------
(* Claims on the escalation through the tiers (SpecExperiment) *)

---------------------------------------------------------------------------
(* Claims on the resource warden (SpecWarden) *)

\* the names a list of specs asks for, in the order they are asked
RECURSIVE Requested(_)
Requested(resources) ==
    IF resources = <<>> THEN <<>>
    ELSE (IF Head(resources).type = "str" THEN <<Head(resources).name>>
          ELSE Head(resources).names) \o Requested(Tail(resources))

\* how often r occurs in seq
Count(seq, r) == Cardinality({i \in DOMAIN seq : seq[i] = r})

\* C10 (as claimed): every acquire call over names and mappings that returns
\* is all-or-nothing: either it returns every requested name, each of them
\* taken from its primitive, or it returns the empty list and every
\* primitive has the value it had before the call.
C10_AllOrNothing ==
    ( /\ warden.call = "acquire"
      /\ warden.raised = NoException
      /\ \A i \in DOMAIN warden.resources : warden.resources[i].type \in {"str", "dict"} )
    => \/ /\ warden.result = Requested(warden.resources)
          /\ \A r \in Names :
                resource_dict[r].value = warden.before[r].value - Count(warden.result, r)
       \/ /\ warden.result = <<>>
          /\ resource_dict = warden.before

\* the specs are all resource names
AllNames(resources) == \A i \in DOMAIN resources : resources[i].type = "str"

\* position i of names is refused: the units of names[i] left before the
\* call are all taken by the earlier positions of the list
Refused(before, names, i) ==
    before[names[i]].value <= Count(SubSeq(names, 1, i - 1), names[i])

\* the positions of names whose primitive refuses when all before it agreed
FirstRefused(before, names) ==
    {i \in DOMAIN names : /\ Refused(before, names, i)
                          /\ \A j \in 1..(i - 1) : ~Refused(before, names, j)}

\* C11: an acquire call over a list of names whose i-th name is the first
\* to be refused attempts names 1..i in list order and nothing after them,
\* releases each of names 1..i-1 exactly once, leaves every primitive with
\* the value it had before the call, and returns the empty list.
C11_RollbackOnFirstRefusal ==
    (warden.call = "acquire" /\ AllNames(warden.resources)) =>
        LET names == Requested(warden.resources)
        IN \A i \in FirstRefused(warden.before, names) :
              /\ warden.attempted = SubSeq(names, 1, i)
              /\ Len(warden.released) = i - 1
              /\ \A r \in Names :
                    Count(warden.released, r) = Count(SubSeq(names, 1, i - 1), r)
              /\ resource_dict = warden.before
              /\ warden.result = <<>>

\* C11 witness: a list of names whose second name was refused after the
\* first was taken, units of the pool being held from an earlier call
C11_Witness ==
    /\ warden.call = "acquire"
    /\ AllNames(warden.resources)
    /\ 2 \in FirstRefused(warden.before, Requested(warden.resources))
    /\ warden.released # <<>>
    /\ \E r \in Names : warden.before[r].value < warden.before[r].initial

---------------------------------------------------------------------------
(* Claims on the resource container (SpecContainer) *)

\* the names in the list of lists that release_chunk returns
RECURSIVE Flat(_)
Flat(lists) == IF lists = <<>> THEN <<>> ELSE Head(lists) \o Flat(Tail(lists))

\* a list, last entry first
Reverse(list) == [i \in 1..Len(list) |-> list[Len(list) + 1 - i]]

\* C12 (as claimed): release_chunk() with no count releases exactly the
\* ledger entries appended since the last reset_chunk_marker, the last one
\* first, and leaves the entries that were in the ledger at that reset;
\* release_chunk(n) releases the trailing n entries, the last one first.
C12_ReleaseChunkReleasesTheChunk ==
    (contained.call = "release_chunk" /\ contained.raised = NoException) =>
        LET ledger == contained.before.resources
            n == IF contained.num = None THEN Len(ledger) - contained.boundary
                 ELSE contained.num[1]
        IN /\ Flat(contained.result) = Reverse(SubSeq(ledger, Len(ledger) - n + 1, Len(ledger)))
           /\ container.resources = SubSeq(ledger, 1, Len(ledger) - n)

\* C13 (as claimed): a release(index) that returns decrements the chunk
\* marker by one if and only if the removed ledger position was strictly
\* below the marker.
C13_MarkerKeepsItsBoundary ==
    (contained.call = "release" /\ contained.raised = NoException) =>
        LET before == contained.before
            position == IF contained.index >= 0 THEN contained.index
                        ELSE Len(before.resources) + contained.index
        IN container.chunk_marker =
              IF position < before.chunk_marker THEN before.chunk_marker - 1
              ELSE before.chunk_marker

\* C14 (as claimed): the chunk marker is a position of the ledger or its end.
C14_MarkerWithinLedger ==
    0 <= container.chunk_marker /\ container.chunk_marker <= Len(container.resources)


---------------------------------------------------------------------------
(* Claims on the queue of argument sets (SpecExperiment) *)

\* how many entries of a list equal x
Occurrences(list, x) == Cardinality({i \in 1..Len(list) : list[i] = x})

\* the argument sets new_trial received, in call order
Received == [i \in 1..Len(assigned.given) |-> assigned.given[i].config]

\* C15: the i-th new_trial call of a run, counted over all slots, receives
\* the i-th argument set of the queue as it was enqueued
C15_QueueOrder ==
    \A i \in 1..Len(Received) :
        i <= Len(assigned.queue) /\ Received[i] = assigned.queue[i]

\* C16: when the first loop has ended (the queue is empty and run has not
\* been left by an exception), new_trial has been called exactly once per
\* enqueued argument set, and each argument set was received by exactly as
\* many calls as the queue held copies of it
C16_EachArgumentSetOnce ==
    (frame.pc \in {"drain", "returned"}) =>
        /\ experiment.trial_arg_configs = <<>>
        /\ Len(Received) = Len(assigned.queue)
        /\ \A i \in 1..Len(assigned.queue) :
              Occurrences(Received, assigned.queue[i]) = Occurrences(assigned.queue, assigned.queue[i])

\* C16 happens: a queue of two different argument sets has been handed out
\* to one slot, the second when the run on the first was ended by a
\* TrialAbort, and with it the first loop has ended
C16_Witness ==
    /\ frame.pc = "drain"
    /\ Len(assigned.queue) = 2
    /\ assigned.queue[1] # assigned.queue[2]
    /\ Len(Received) = 2
    /\ assigned.given[1].slot = assigned.given[2].slot
    /\ passed.raised = "TrialAbort"
    /\ ~passed.drain


---------------------------------------------------------------------------
(* Claims on the Trial-tier outcomes absorbed by Experiment.run            *)
(* (SpecExperiment)                                                        *)

\* the slot after slot s, in the order the loops visit the slots
NextSlot(s) == s % Len(experiment.trial_instances)

\* the loop the last pass was in has gone on past the slot it visited: the
\* first loop to the next slot, or to the second loop when the pass took the
\* last argument set; the second loop to the next slot, or out of run when
\* the sweep it completed found every slot done
GoesOn ==
    IF passed.drain
    THEN \/ frame.pc = "drain" /\ frame.sweep = NextSlot(passed.slot)
         \/ frame.pc = "returned" /\ passed.slot = Len(experiment.trial_instances)
    ELSE \/ frame.pc = "fill" /\ frame.trial_index = NextSlot(passed.slot)
         \/ frame.pc = "drain" /\ experiment.trial_arg_configs = <<>>

\* C18: a TrialReset or TrialAbort that leaves trial.run() in either loop
\* does not leave Experiment.run. After a TrialReset the slot is at stage 0,
\* not done, and the queue is as long as before the pass; after a TrialAbort
\* the run of the slot is over (the second loop marks it done, the first
\* loop starts the slot on the next argument set). Either way the results
\* the slot had accumulated are shipped and the loop goes on.
C18_TrialTierAbsorbed ==
    LET t == experiment.trial_instances[passed.slot]
    IN /\ passed.raised = "TrialReset" =>
            /\ frame.pc # "raised"
            /\ t.stage_index = 0 /\ ~t.done
            /\ Len(experiment.trial_arg_configs) = passed.pending
            /\ passed.ships /\ passed.results = passed.had
            /\ GoesOn
       /\ passed.raised = "TrialAbort" =>
            /\ frame.pc # "raised"
            /\ IF passed.drain THEN t.done
               ELSE /\ Len(experiment.trial_arg_configs) = passed.pending - 1
                    /\ t.stage_index = 0 /\ t.results = t.initial_results
            /\ passed.ships /\ passed.results = passed.had
            /\ GoesOn

\* C18 happens: in the first loop, with an argument set still pending, a
\* slot that had accumulated a result raised TrialReset
C18_Witness ==
    /\ passed.raised = "TrialReset"
    /\ ~passed.drain
    /\ passed.had # <<>>
    /\ experiment.trial_arg_configs # <<>>


---------------------------------------------------------------------------
(* Claim on the end of the second loop (SpecDrain) *)

\* every slot of the experiment is done
AllDone == \A i \in 1..Len(experiment.trial_instances) : experiment.trial_instances[i].done

\* C17: when no stage answers "not complete" for ever, the second loop of
\* run, once entered, ends: run returns with every slot done, the slots that
\* never received an argument set included
C17_DrainTerminates == (frame.pc = "drain") ~> (frame.pc = "returned" /\ AllDone)


---------------------------------------------------------------------------
(* Claims on the parts of a Trial that its methods leave alone (SpecTrial)  *)

\* the last entry of a list
Last(list) == list[Len(list)]

\* a step that is a trial.run() in which the stage returned an update with
\* the key trial_results
RunEmits == called'.call = "run" /\ Len(emitted') = Len(emitted) + 1

\* C19: a trial.run() whose stage returned an update holding trial_results
\* appends that value once to the results, and leaves the trial_results
\* entry of the state as it was
C19_TrialResultsNotMerged ==
    [][RunEmits =>
          /\ trial'.results = Append(trial.results, Last(emitted'))
          /\ trial'.state["trial_results"] = trial.state["trial_results"]]_vars


\* the working policies of a trial: its own, and those of the stages it owns
Policies(t) == <<t.error_sequence>> \o [i \in 1..Len(t.stages) |-> t.stages[i].error_sequence]

\* the original policies of a trial, in the same order
Originals(t) == <<t.original_error_sequence>> \o [i \in 1..Len(t.stages) |-> t.stages[i].original_error_sequence]

\* C20: after trial.new_trial(...) every working policy of the trial and of
\* its stages is the original one, whatever had been consumed; trial.reset()
\* leaves every working policy as it was before the call
C20_NewTrialRestoresResetKeeps ==
    [][/\ called'.call = "new_trial" =>
             Policies(trial') = Originals(trial) /\ Originals(trial') = Originals(trial)
       /\ called'.call = "reset" =>
             Policies(trial') = Policies(trial) /\ Originals(trial') = Originals(trial)]_vars

\* C20 happens: new_trial has been called on a trial some of whose policies
\* were partly consumed
C20_Witness == called.call = "new_trial" /\ called.spent


---------------------------------------------------------------------------
(* Claim on reset_error_sequence (SpecPolicy) *)

\* C21: the stored original is at all times the expansion of the policy the
\* entity was constructed with, whatever has been consumed from the working
\* sequence; and after reset_error_sequence the working sequence is that
\* expansion, whatever it was before the call
C21_ResetRestoresSupplied ==
    /\ original_error_sequence = _create_error_sequence(supplied)
    /\ intercepted.call = "reset" => error_sequence = _create_error_sequence(supplied)

\* C21 happens: reset_error_sequence was called on a policy of two entries
\* that had been consumed to empty
C21_Witness ==
    /\ intercepted.call = "reset"
    /\ intercepted.before = <<>>
    /\ Len(supplied) = 2
    /\ Len(error_sequence) >= 2


---------------------------------------------------------------------------
(* Claims on when a slot is started anew and when its results are shipped  *)
(* (SpecExperiment)                                                        *)

\* the trial of slot i
Slot(i) == experiment.trial_instances[i]

\* C22: a pass of run calls new_trial only on the slot it visited, and only
\* when trial.run() of that slot returned a completion status with the
\* trial done (it had finished, or had never been given an argument set),
\* or raised TrialAbort; the trial of every other slot, in progress or not,
\* is left as it was. A pass that calls no new_trial takes nothing from the
\* queue and leaves every slot on the argument set it was started with.
C22_NewTrialOnlyAfterDoneOrAbort ==
    [][IF passed'.starts
       THEN /\ Len(assigned'.given) = Len(assigned.given) + 1
            /\ assigned'.given[Len(assigned'.given)].slot = passed'.slot
            /\ \/ passed'.raised = "TrialAbort"
               \/ passed'.raised = NoException /\ passed'.status # 0 /\ passed'.done_after
            /\ \A i \in 1..Len(experiment.trial_instances) :
                  i # passed'.slot => Slot(i)' = Slot(i)
       ELSE /\ assigned' = assigned
            /\ experiment'.trial_arg_configs = experiment.trial_arg_configs
            /\ \A i \in 1..Len(experiment.trial_instances) :
                  /\ Slot(i)'.initial_state = Slot(i).initial_state
                  /\ Slot(i)'.stage_args = Slot(i).stage_args]_vars

\* C22 happens: the one slot of an experiment, whose run on the first
\* argument set had accumulated a result, finished that run and was started
\* on the second argument set in the same pass
C22_Witness ==
    /\ passed.starts
    /\ passed.raised = NoException
    /\ ~passed.done_before
    /\ passed.had # <<>>
    /\ Len(assigned.given) = 2


\* the last pass was a step of a slot in which trial.run() brought the trial
\* from not done to done and returned a completion status
BecameDone ==
    /\ passed.slot > 0
    /\ passed.raised = NoException
    /\ ~passed.done_before
    /\ passed.done_after

\* C23: the pass in which trial.run() finishes a trial calls ship_results
\* with the results the trial accumulated (those it had, followed by what
\* the last stage returned); a pass that visits a slot already done gets
\* status 1 without results from trial.run() and calls ship_results not at
\* all; and no other pass in which trial.run() returned calls ship_results
C23_ShippedOnceWhenDone ==
    /\ BecameDone =>
          /\ passed.status = 1
          /\ passed.ships
          /\ SubSeq(passed.results, 1, Len(passed.had)) = passed.had
    /\ (passed.slot > 0 /\ passed.done_before) =>
          /\ passed.raised = NoException
          /\ passed.status = 1
          /\ ~passed.ships
    /\ (passed.slot > 0 /\ passed.raised = NoException /\ passed.ships) => BecameDone

\* C23 happens: in the second loop, the slot that finished in an earlier
\* pass and shipped then is visited again, and nothing is shipped
C23_Witness ==
    /\ passed.drain
    /\ passed.done_before
    /\ ~passed.ships
    /\ Slot(passed.slot).results # <<>>
    /\ Len(experiment.trial_instances) = 2


---------------------------------------------------------------------------
(* Claim on the ledger and the units held (SpecContainer) *)

\* the units of r taken from its primitive: capacity minus available
Taken(r) == resource_dict[r].initial - resource_dict[r].value

\* for every name the ledger lists it as often as units of it are taken
LedgerIsWhatIsHeld ==
    \A r \in Names : Occurrences(container.resources, r) = Taken(r)

\* C24: the container being the only user of its warden, after any calls of
\* its methods that all returned normally, for every name the ledger lists
\* it as often as units of it are taken from its primitive
C24_LedgerIsWhatIsHeld == normal => LedgerIsWhatIsHeld

\* C24 happens: after calls that all returned normally, the first of two
\* different entries of the ledger has been released and the other is kept
C24_Witness ==
    /\ normal
    /\ contained.call = "release"
    /\ contained.index = 0
    /\ Len(contained.before.resources) = 2
    /\ Len(container.resources) = 1
    /\ contained.before.resources[1] # container.resources[1]

=============================================================================
